---- MODULE Spec2Model ----
(***************************************************************************)
(* Particles-Morphing (src/40-particles-morphing-shader/src/script.js).    *)
(*                                                                         *)
(* The script loads a glTF scene, pads every mesh's position array to the  *)
(* vertex count of the biggest mesh, binds one array as the 'position'     *)
(* attribute and, on every morph request, rebinds 'position' and           *)
(* 'aPositionTarget' and starts a gsap tween that drives uProgress from 0  *)
(* to 1 in 3 seconds.  A setInterval callback requests the next shape      *)
(* every 4 seconds.                                                        *)
(*                                                                         *)
(* Representation.                                                         *)
(*  - Time advances in ticks; TicksPerUnit ticks make one second.          *)
(*  - uProgress is a fixed-point number: One stands for 1.0.               *)
(*  - A float of mesh v (1-based position in the scene), vertex p,         *)
(*    coordinate k is the tuple <<v, p, k>>; NaN is what a Float32Array     *)
(*    stores when it is assigned undefined.                                *)
(*  - JavaScript indices are 0-based and kept so; FloatAt reads a          *)
(*    sequence at a 0-based index.                                         *)
(*  - A buffer attribute bound to the geometry is named by the 0-based     *)
(*    index of the entry of particles.positions it refers to, Undefined    *)
(*    when the entry does not exist.                                       *)
(*  - The live tweens are kept by age.  Tweens started within the same     *)
(*    tick have the same age for ever, write the same value at every        *)
(*    ticker update and end together; they are one entry of the list.       *)
(***************************************************************************)
EXTENDS Integers, Sequences, FiniteSets

\* ---------------------------------------------------------------- bounds
MaxVariants == 3
MaxPoints == 3
SizeLevels == 2
TicksPerUnit == 1

\* ------------------------------------------------------ program constants
FloatsPerPoint == 3
IntervalUnits == 4

\* Mutant: the tween lasts longer than the interval between two timer firings.
DurationUnitsLong == IntervalUnits + 1

DurationUnits == 3
MorphButtons == 0 .. 3

DurationTicks == DurationUnits * TicksPerUnit
IntervalTicks == IntervalUnits * TicksPerUnit

Undefined == -1
NaN == <<"NaN">>

One == DurationTicks
FromValue == 0
ToValue == One

VARIABLES
  inputs,        \* position.count of every child of gltf.scene, in order
  gui,           \* window.location.hash === '#debug': the debug panel exists
  loaded,        \* particles !== null
  index,         \* particles.index
  maxCount,      \* particles.maxCount
  positions,     \* particles.positions: sequence of float arrays
  positionIds,   \* the object behind every entry of particles.positions (see ArrayId)
  sizesArray,    \* the aSize attribute's array
  attrPosition,  \* geometry.attributes.position
  attrTarget,    \* geometry.attributes.aPositionTarget
  uProgress,     \* material.uniforms.uProgress.value
  tweens,        \* live gsap tweens on uProgress, oldest first: elapsed ticks (one entry per start tick)
  timerElapsed,  \* ticks since the setInterval timer was armed or last fired
  clock,         \* ticks since script start, modulo IntervalTicks
  lastError,     \* the last uncaught exception, "none" when there is none
  lastEvent,     \* history: the last handler that ran and the morph index it requested
  autoTargets,   \* history: the most recent timer-requested indices (while no button was used)
  manualUsed     \* history: a morph button has been used

vars == <<inputs, gui, loaded, index, maxCount, positions, positionIds, sizesArray, attrPosition,
          attrTarget, uProgress, tweens, timerElapsed, clock, lastError,
          lastEvent, autoTargets, manualUsed>>

particleVars == <<index, maxCount, positions, positionIds, sizesArray, attrPosition, attrTarget>>

\* ------------------------------------------------------------- helpers
\* newArray[..] = arr[i]: a read past the end gives undefined, which a
\* Float32Array stores as NaN.
FloatAt(arr, i) == IF i >= 0 /\ i < Len(arr) THEN arr[i + 1] ELSE NaN

\* position.array of mesh v: 3 floats per vertex.
OriginalArray(v) ==
  [n \in 1 .. FloatsPerPoint * inputs[v] |->
     <<v, (n - 1) \div FloatsPerPoint, (n - 1) % FloatsPerPoint>>]

\* All scenes within the bounds.
Inputs == UNION {[1 .. n -> 0 .. MaxPoints] : n \in 0 .. MaxVariants}

\* Scenes of the morphing runs: up to one mesh per morph button, each with
\* one vertex, and two scenes of two meshes: one with an empty mesh and one
\* with a mesh that is padded.  (Scenes in which the loop skips a mesh are
\* left to SpecLoad; the handlers see a scene only through particles.positions.)
SceneInputs ==
  {[v \in 1 .. n |-> 1] : n \in 0 .. Cardinality(MorphButtons)}
    \cup {<<0, 1>>, <<2, 1>>}

\* ----------------------------------------------------------- normalizer
RECURSIVE MaxCountFrom(_, _, _)
MaxCountFrom(counts, v, acc) ==
  IF v > Len(counts) THEN acc
  ELSE MaxCountFrom(counts, v + 1, IF counts[v] > acc THEN counts[v] ELSE acc)

MaxCountOf(counts) == MaxCountFrom(counts, 1, 0)

\* Math.floor(position.count * Math.random()): every value the draw can give.
RandomPoints(count) == IF count = 0 THEN {0} ELSE 0 .. count - 1

\* The slots of the new array that are filled by a random draw.
PaddedSlots(v, mc) == {i \in 0 .. mc - 1 : ~(i * FloatsPerPoint < Len(OriginalArray(v)))}

\* Mutant: the new array is allocated with maxCount floats instead of 3 * maxCount.
NewArrayShort(v, mc, draw) ==
  [n \in 1 .. mc |->
     LET i == (n - 1) \div FloatsPerPoint
         k == (n - 1) % FloatsPerPoint
         i3 == i * FloatsPerPoint
     IN IF i3 < Len(OriginalArray(v))
        THEN FloatAt(OriginalArray(v), i3 + k)
        ELSE FloatAt(OriginalArray(v), draw[i] * FloatsPerPoint + k)]

\* newArray of mesh v, given the draw made for every padded slot.
NewArray(v, mc, draw) ==
  [n \in 1 .. mc * FloatsPerPoint |->
     LET i == (n - 1) \div FloatsPerPoint
         k == (n - 1) % FloatsPerPoint
         i3 == i * FloatsPerPoint
     IN IF i3 < Len(OriginalArray(v))
        THEN FloatAt(OriginalArray(v), i3 + k)
        ELSE FloatAt(OriginalArray(v), draw[i] * FloatsPerPoint + k)]

\* The meshes the loop does not skip, in scene order.
Skipped(v, mc) == Len(OriginalArray(v)) = mc

StoredMeshes(mc) ==
  SelectSeq([v \in 1 .. Len(inputs) |-> v], LAMBDA v : ~Skipped(v, mc))

\* Every value particles.positions can have after the loop.
NormalizeOutcomes(mc) ==
  LET stored == StoredMeshes(mc)
      draws == [k \in 1 .. Len(stored) |->
                  [PaddedSlots(stored[k], mc) -> RandomPoints(inputs[stored[k]])]]
  IN {[k \in 1 .. Len(stored) |-> NewArray(stored[k], mc, pick[k])] :
        pick \in {f \in [1 .. Len(stored) -> UNION {draws[k] : k \in 1 .. Len(stored)}] :
                    \A k \in 1 .. Len(stored) : f[k] \in draws[k]}}

\* Object identity of float arrays: mesh v's own position.array is object v,
\* the k-th Float32Array the callback allocates is object Len(inputs) + k.
OriginalArrayId(v) == v
NewArrayId(k) == Len(inputs) + k

\* Math.random() for a size, as a level in [0, SizeLevels).
SizeOutcomes(mc) == [1 .. mc -> 0 .. SizeLevels - 1]

\* The attribute that particles.positions[i] evaluates to.
PositionsAt(i) == IF i >= 0 /\ i < Len(positions) THEN i ELSE Undefined

\* ------------------------------------------------------------------ gsap
\* ease 'linear' from FromValue to ToValue over the tween's duration.
TweenValue(elapsed) ==
  FromValue + ((ToValue - FromValue) * elapsed) \div DurationTicks

\* One ticker update: every live tween writes its value, in creation order.
RECURSIVE WriteTweens(_, _)
WriteTweens(value, tw) ==
  IF tw = <<>> THEN value
  ELSE WriteTweens(TweenValue(Head(tw)), Tail(tw))

\* gsap.fromTo adds a tween of age 0 (one entry for all tweens of this tick).
StartTween(tw) ==
  IF tw # <<>> /\ tw[Len(tw)] = 0 THEN tw ELSE Append(tw, 0)

Advance(tw) == [k \in 1 .. Len(tw) |-> tw[k] + 1]

\* Mutant: a tween stays alive for one update after it has reached its end.
UnfinishedLate(tw) == SelectSeq(tw, LAMBDA e : e <= DurationTicks)

Unfinished(tw) == SelectSeq(tw, LAMBDA e : e < DurationTicks)

\* ------------------------------------------------------------- actions
Init ==
  /\ inputs \in SceneInputs
  /\ gui \in BOOLEAN
  /\ loaded = FALSE
  /\ index = 0
  /\ maxCount = 0
  /\ positions = <<>>
  /\ positionIds = <<>>
  /\ sizesArray = <<>>
  /\ attrPosition = Undefined
  /\ attrTarget = Undefined
  /\ uProgress = 0
  /\ tweens = <<>>
  /\ timerElapsed = 0
  /\ clock = 0
  /\ lastError = "none"
  /\ lastEvent = [kind |-> "init", arg |-> Undefined]
  /\ autoTargets = <<>>
  /\ manualUsed = FALSE

InitAll ==
  /\ inputs \in Inputs
  /\ gui \in BOOLEAN
  /\ loaded = FALSE
  /\ index = 0
  /\ maxCount = 0
  /\ positions = <<>>
  /\ positionIds = <<>>
  /\ sizesArray = <<>>
  /\ attrPosition = Undefined
  /\ attrTarget = Undefined
  /\ uProgress = 0
  /\ tweens = <<>>
  /\ timerElapsed = 0
  /\ clock = 0
  /\ lastError = "none"
  /\ lastEvent = [kind |-> "init", arg |-> Undefined]
  /\ autoTargets = <<>>
  /\ manualUsed = FALSE

\* The gltfLoader.load callback.
Load ==
  /\ ~loaded
  /\ loaded' = TRUE
  /\ index' = 0
  /\ maxCount' = MaxCountOf(inputs)
  /\ positions' \in NormalizeOutcomes(MaxCountOf(inputs))
  /\ positionIds' = [k \in 1 .. Len(positions') |-> NewArrayId(k)]
  /\ sizesArray' \in SizeOutcomes(MaxCountOf(inputs))
  /\ attrPosition' = (IF 0 < Len(positions') THEN 0 ELSE Undefined)
  /\ attrTarget' = Undefined
  /\ uProgress' = 0
  /\ lastEvent' = [kind |-> "load", arg |-> Undefined]
  /\ UNCHANGED <<inputs, gui, tweens, timerElapsed, clock, lastError, autoTargets, manualUsed>>

\* Mutant: the tween is started with gsap.to, which does not render at once,
\* so uProgress keeps its value until the next ticker update.
MorphNoRestart(j) ==
  /\ attrPosition' = PositionsAt(index)
  /\ attrTarget' = PositionsAt(j)
  /\ uProgress' = uProgress
  /\ tweens' = StartTween(tweens)
  /\ index' = j
  /\ UNCHANGED <<maxCount, positions, positionIds, sizesArray>>

\* Mutant: morph leaves the 'position' attribute as it is.
MorphKeepFrom(j) ==
  /\ attrPosition' = attrPosition
  /\ attrTarget' = PositionsAt(j)
  /\ uProgress' = FromValue
  /\ tweens' = StartTween(tweens)
  /\ index' = j
  /\ UNCHANGED <<maxCount, positions, positionIds, sizesArray>>

\* Mutant: morph draws the particle sizes again.
MorphResizes(j) ==
  /\ attrPosition' = PositionsAt(index)
  /\ attrTarget' = PositionsAt(j)
  /\ uProgress' = FromValue
  /\ tweens' = StartTween(tweens)
  /\ index' = j
  /\ sizesArray' \in SizeOutcomes(maxCount)
  /\ UNCHANGED <<maxCount, positions, positionIds>>

\* particles.morph(j)
Morph(j) ==
  /\ attrPosition' = PositionsAt(index)
  /\ attrTarget' = PositionsAt(j)
  /\ uProgress' = FromValue
  /\ tweens' = StartTween(tweens)
  /\ index' = j
  /\ UNCHANGED <<maxCount, positions, positionIds, sizesArray>>

\* Mutant: a button click re-arms the interval timer.
ManualMorphRearmsTimer(j) ==
  /\ gui /\ loaded
  /\ Morph(j)
  /\ lastEvent' = [kind |-> "manual", arg |-> j]
  /\ manualUsed' = TRUE
  /\ autoTargets' = <<>>
  /\ timerElapsed' = 0
  /\ UNCHANGED <<inputs, gui, loaded, clock, lastError>>

\* A click on one of the buttons bound to particles.morph0 .. morph3.
ManualMorph(j) ==
  /\ gui /\ loaded
  /\ Morph(j)
  /\ lastEvent' = [kind |-> "manual", arg |-> j]
  /\ manualUsed' = TRUE
  /\ autoTargets' = <<>>
  /\ UNCHANGED <<inputs, gui, loaded, timerElapsed, clock, lastError>>

\* Mutant: the wrap test is > instead of >=.
SwapTargetLateWrap == IF index > Len(positions) - 1 THEN 0 ELSE index + 1

\* Mutant: the callback always steps forward and never wraps.
SwapTargetNoWrap == index + 1

\* The index the interval callback requests.
SwapTarget == IF index >= Len(positions) - 1 THEN 0 ELSE index + 1

LastN(s, n) == IF Len(s) <= n THEN s ELSE SubSeq(s, Len(s) - n + 1, Len(s))

\* The setInterval callback of swapModels.
TimerFire ==
  /\ timerElapsed = IntervalTicks
  /\ timerElapsed' = 0
  /\ IF loaded
     THEN /\ Morph(SwapTarget)
          /\ lastEvent' = [kind |-> "timer", arg |-> SwapTarget]
          /\ autoTargets' = (IF manualUsed THEN <<>>
                             ELSE LastN(Append(autoTargets, SwapTarget), Len(positions) + 1))
          /\ UNCHANGED lastError
     ELSE /\ lastError' = "TypeError"
          /\ lastEvent' = [kind |-> "timer", arg |-> Undefined]
          /\ UNCHANGED <<particleVars, uProgress, tweens, autoTargets>>
  /\ UNCHANGED <<inputs, gui, loaded, clock, manualUsed>>

\* Mutant: a tween that completes rebinds 'position' to the target (an onComplete).
GsapTickRebind ==
  /\ timerElapsed < IntervalTicks
  /\ timerElapsed' = timerElapsed + 1
  /\ clock' = (clock + 1) % IntervalTicks
  /\ uProgress' = WriteTweens(uProgress, Advance(tweens))
  /\ tweens' = Unfinished(Advance(tweens))
  /\ lastEvent' = [kind |-> "tick", arg |-> Undefined]
  /\ attrPosition' = (IF tweens # <<>> /\ tweens' = <<>> THEN attrTarget ELSE attrPosition)
  /\ UNCHANGED <<inputs, gui, loaded, index, maxCount, positions, positionIds, sizesArray, attrTarget,
                 lastError, autoTargets, manualUsed>>

\* One tick of time: the gsap ticker updates every live tween.
GsapTick ==
  /\ timerElapsed < IntervalTicks
  /\ timerElapsed' = timerElapsed + 1
  /\ clock' = (clock + 1) % IntervalTicks
  /\ uProgress' = WriteTweens(uProgress, Advance(tweens))
  /\ tweens' = Unfinished(Advance(tweens))
  /\ lastEvent' = [kind |-> "tick", arg |-> Undefined]
  /\ UNCHANGED <<inputs, gui, loaded, particleVars, lastError, autoTargets, manualUsed>>

\* The values the uProgress slider of the debug panel is set to.
SliderValues == {0, One \div 2, One}

\* The uProgress controller of the debug panel (min 0, max 1) is moved: it
\* writes the uniform; tweens, attributes and particles.index are untouched.
SliderSet(x) ==
  /\ gui /\ loaded
  /\ uProgress' = x
  /\ lastEvent' = [kind |-> "slider", arg |-> Undefined]
  /\ UNCHANGED <<inputs, gui, loaded, particleVars, tweens, timerElapsed, clock,
                 lastError, autoTargets, manualUsed>>

\* The requestAnimationFrame callback tick: it renders the scene from the
\* attributes and uniforms as they are and changes none of them.
Render ==
  /\ lastEvent' = [kind |-> "render", arg |-> Undefined]
  /\ UNCHANGED <<inputs, gui, loaded, particleVars, uProgress, tweens, timerElapsed, clock,
                 lastError, autoTargets, manualUsed>>

Next ==
  \/ Load
  \/ \E j \in MorphButtons : ManualMorph(j)
  \/ TimerFire
  \/ GsapTick
  \/ \E x \in SliderValues : SliderSet(x)
  \/ Render

Spec == Init /\ [][Next]_vars

\* Construction alone, over every scene within the bounds.
NextLoad == Load

SpecLoad == InitAll /\ [][NextLoad]_vars

TypeOK ==
  /\ loaded \in BOOLEAN
  /\ uProgress \in 0 .. One
  /\ timerElapsed \in 0 .. IntervalTicks

\* ---------------------------------------------------------------- claims
VariantCount == Len(positions)
ValidIndex(j) == j >= 0 /\ j < VariantCount
MorphRan == lastEvent.kind \in {"manual", "timer"} /\ loaded
Transitioning == tweens # <<>>

\* The Particle Set was built from a scene in which every mesh has vertices
\* and holds one variant per mesh.
SceneOk ==
  /\ loaded /\ Len(inputs) >= 1
  /\ \A v \in 1 .. Len(inputs) : inputs[v] >= 1
  /\ VariantCount = Len(inputs)

\* C1: right after morphTo(j) returns, for a valid j and from any state
\* (a transition may be in flight), targetIndex is j and progress is 0.
C1_MorphSetsTargetAndRestarts ==
  (MorphRan /\ ValidIndex(lastEvent.arg)) =>
     (attrTarget = lastEvent.arg /\ uProgress = 0)

\* C1 witness: morph(2) was requested while the tween of an earlier morph(2)
\* (the 'from' variant is 2, the earlier target) was still running.
C1_Witness ==
  /\ MorphRan /\ lastEvent = [kind |-> "manual", arg |-> 2]
  /\ ValidIndex(2)
  /\ Len(tweens) = 2 /\ tweens[1] > 0
  /\ attrPosition = 2 /\ attrTarget = 2 /\ uProgress = 0

\* C2 (as claimed): at most one progress tween is alive in every state.
C2_SingleTween == SceneOk => Len(tweens) <= 1

\* C3 (as claimed): the timer requests (currentIndex + 1) mod variantCount,
\* currentIndex being the variant bound as the 'from' position.
C3_Original ==
  [][(SceneOk /\ lastEvent'.kind = "timer" /\ attrPosition # Undefined)
       => lastEvent'.arg = (attrPosition + 1) % VariantCount]_vars

\* C3 (amended): once the Particle Set exists the timer requests
\* (particles.index + 1) mod variantCount, where particles.index is the index of
\* the most recent morph request (0 before any), and 0 when that index is out
\* of range.
C3_TimerRequestsNextAfterIndex ==
  [][/\ (loaded /\ lastEvent'.kind = "timer")
          => lastEvent'.arg = (IF ValidIndex(index) THEN (index + 1) % VariantCount ELSE 0)
     /\ (loaded /\ lastEvent'.kind \in {"manual", "timer"})
          => index' = lastEvent'.arg]_vars

\* C3 witness: the timer fired in mid-transition from the last variant and
\* wrapped to the first; the 'from' variant differs from the request's predecessor.
C3_Witness ==
  /\ MorphRan /\ lastEvent = [kind |-> "timer", arg |-> 0]
  /\ VariantCount >= 3
  /\ attrPosition = VariantCount - 1
  /\ Len(tweens) = 2

\* C4: with no button used, any variantCount consecutive timer requests are
\* the indices 0 .. variantCount-1, each once, and the sequence has period
\* variantCount.
C4_CycleCoverage ==
  (loaded /\ ~manualUsed /\ VariantCount >= 1) =>
     /\ \A s \in 1 .. Len(autoTargets) - VariantCount + 1 :
          {autoTargets[s + k] : k \in 0 .. VariantCount - 1} = 0 .. VariantCount - 1
     /\ \A s \in 1 .. Len(autoTargets) - VariantCount :
          autoTargets[s + VariantCount] = autoTargets[s]

\* C4 witness: a set of at least three variants has been cycled through once
\* and the first request has come round again.
C4_Witness ==
  /\ loaded /\ ~manualUsed /\ VariantCount >= 3
  /\ Len(autoTargets) = VariantCount + 1

\* C5 (as claimed): when the last tween completes, 'from' and 'to' are the
\* same variant.
C5_Original ==
  [][(SceneOk /\ lastEvent'.kind = "tick" /\ Transitioning /\ tweens' = <<>>
        /\ attrPosition # Undefined /\ attrTarget # Undefined)
       => (uProgress' = One /\ attrPosition' = attrTarget')]_vars

\* C5 (amended): completion of a transition i -> j rebinds nothing: targetIndex
\* and particles.index are j, progress is 1 and the 'from' variant is still i.
C5_CompletionRebindsNothing ==
  [][(lastEvent'.kind = "tick" /\ Transitioning /\ tweens' = <<>>)
       => /\ uProgress' = One
          /\ attrTarget' = PositionsAt(index')
          /\ UNCHANGED <<attrPosition, attrTarget, index>>]_vars

\* C5 witness: a transition between two different variants has completed.
C5_Witness ==
  /\ loaded /\ lastEvent.kind = "tick" /\ timerElapsed = DurationTicks
  /\ ~manualUsed /\ autoTargets # <<>>
  /\ ~Transitioning /\ uProgress = One
  /\ attrPosition # Undefined /\ attrTarget # Undefined
  /\ attrPosition # attrTarget /\ attrTarget = index

\* C6 (as claimed): a ticker update never lowers progress; progress
\* decreases only in a morph call, and then to 0.
C6_ProgressMonotone ==
  [][/\ lastEvent'.kind = "tick" => uProgress' >= uProgress
     /\ uProgress' < uProgress
          => (lastEvent'.kind \in {"manual", "timer"} /\ uProgress' = 0)]_vars

\* C7 (as claimed): a morph request with an index outside [0, variantCount)
\* raises InvalidVariantIndexError and changes nothing.
C7_InvalidIndexRejected ==
  [][(SceneOk /\ lastEvent'.kind = "manual" /\ ~ValidIndex(lastEvent'.arg))
       => /\ lastError' = "InvalidVariantIndexError"
          /\ UNCHANGED <<index, attrPosition, attrTarget, uProgress, tweens>>]_vars

\* C8 (as claimed): a morph request in mid-transition keeps the 'from' variant.
C8_Original ==
  [][(SceneOk /\ Transitioning /\ lastEvent'.kind \in {"manual", "timer"}
        /\ attrPosition # Undefined /\ attrTarget # Undefined
        /\ ValidIndex(lastEvent'.arg))
       => attrPosition' = attrPosition]_vars

\* C8 (amended): morphTo(j) in mid-transition i -> k sets targetIndex to j and
\* progress to 0 and rebinds the 'from' position to k, the previous target;
\* variants and sizes are untouched.
C8_PreemptionRebindsFromToOldTarget ==
  [][(loaded /\ Transitioning /\ lastEvent'.kind \in {"manual", "timer"})
       => /\ attrPosition' = attrTarget
          /\ attrTarget' = PositionsAt(lastEvent'.arg)
          /\ uProgress' = 0
          /\ UNCHANGED <<positions, sizesArray, maxCount>>]_vars

\* C8 witness: a request has preempted a running transition between valid variants.
C8_Witness ==
  /\ MorphRan /\ Len(tweens) = 2 /\ tweens[1] > 0
  /\ attrPosition # Undefined /\ attrTarget # Undefined
  /\ attrPosition # attrTarget /\ uProgress = 0

\* C9: the interval timer stays on the schedule set at script start whatever
\* buttons are used: it is due exactly at the multiples of the interval.
C9_TimerOnSchedule ==
  /\ timerElapsed % IntervalTicks = clock
  /\ lastEvent.kind = "timer" => (clock = 0 /\ timerElapsed = 0)

\* C9 witness: the timer fired while a transition requested by a button less
\* than one tween duration earlier was still running.
C9_Witness ==
  /\ MorphRan /\ lastEvent.kind = "timer" /\ manualUsed
  /\ Len(tweens) = 2 /\ tweens[1] > 0 /\ tweens[1] < DurationTicks

\* C10: when every mesh has at least one vertex, maxCount is the largest
\* vertex count and every stored variant has 3 * maxCount floats.
C10_NormalizedLength ==
  (loaded /\ Len(inputs) >= 1 /\ \A v \in 1 .. Len(inputs) : inputs[v] >= 1) =>
     /\ \E v \in 1 .. Len(inputs) : inputs[v] = maxCount
     /\ \A v \in 1 .. Len(inputs) : inputs[v] <= maxCount
     /\ \A k \in 1 .. Len(positions) : Len(positions[k]) = FloatsPerPoint * maxCount

\* C10 witness: a scene whose meshes differ in size has been normalized.
C10_Witness ==
  /\ loaded /\ Len(inputs) >= 2 /\ Len(positions) >= 2
  /\ \A v \in 1 .. Len(inputs) : inputs[v] >= 1
  /\ \E v \in 1 .. Len(inputs) : inputs[v] < maxCount

\* ------------------------------------------------- claims on the normalizer
\* Every mesh of the scene has at least one vertex and there is a mesh.
ValidScene == Len(inputs) >= 1 /\ \A v \in 1 .. Len(inputs) : inputs[v] >= 1

\* Point p (0-based) of a float array, as the triple of its coordinates.
PointAt(arr, p) ==
  [c \in 0 .. FloatsPerPoint - 1 |-> FloatAt(arr, p * FloatsPerPoint + c)]

\* C11 (as claimed): N meshes give N stored variants, the k-th built from the
\* k-th mesh.
C11_OneVariantPerMesh ==
  (loaded /\ ValidScene) =>
     /\ Len(positions) = Len(inputs)
     /\ \A k \in 1 .. Len(positions) : positions[k][1] = OriginalArray(k)[1]

\* C12 (as claimed): for every mesh v with fewer than maxCount vertices,
\* output v (particles.positions[v - 1]) exists, has maxCount points and
\* starts with the floats of mesh v, in order.
C12_PrefixCopied ==
  loaded =>
    \A v \in 1 .. Len(inputs) :
      inputs[v] < maxCount =>
        /\ v <= Len(positions)
        /\ Len(positions[v]) = FloatsPerPoint * maxCount
        /\ SubSeq(positions[v], 1, FloatsPerPoint * inputs[v]) = OriginalArray(v)

\* C13 (as claimed): for every mesh v with fewer than maxCount vertices,
\* every padded point of output v is, in all three coordinates, one point of
\* mesh v, whatever the random draws.
C13_PaddingFromOwnPoints ==
  loaded =>
    \A v \in 1 .. Len(inputs) :
      inputs[v] < maxCount =>
        /\ v <= Len(positions)
        /\ \A i \in inputs[v] .. maxCount - 1 :
             \E q \in 0 .. inputs[v] - 1 :
               PointAt(positions[v], i) = PointAt(OriginalArray(v), q)

\* C14 (as claimed): a mesh that already has maxCount vertices is stored as
\* the very array it came with.
C14_PassThroughIdentity ==
  (loaded /\ ValidScene) =>
    \A v \in 1 .. Len(inputs) :
      inputs[v] = maxCount =>
        \E k \in 1 .. Len(positions) :
          positionIds[k] = OriginalArrayId(v) /\ positions[k] = OriginalArray(v)

\* C15 (as claimed): a scene without meshes, or with a mesh without vertices,
\* raises NoGeometryError and no Particle Set is built.
C15_NoGeometryRejected ==
  ~ValidScene => (~loaded /\ (lastEvent.kind = "load" => lastError = "NoGeometryError"))

\* --------------------------------------- claims on the running Particle Set
\* A morph has been requested since construction.
MorphRequested == manualUsed \/ autoTargets # <<>>

\* C16: once the Particle Set is built, no handler changes the sizes, the
\* variants or maxCount.
C16_VariantsAndSizesFrozen ==
  [][loaded => UNCHANGED <<sizesArray, positions, positionIds, maxCount>>]_vars

\* C16 witness: buttons and the timer have both requested morphs on a set
\* with a padded variant, and a transition is running.
C16_Witness ==
  /\ loaded /\ manualUsed /\ lastEvent.kind = "timer" /\ Transitioning
  /\ maxCount >= 2 /\ Len(positions) >= 2 /\ Len(sizesArray) = maxCount

\* C17: the frame callback changes nothing, and a frame rendered right after
\* a morph request sees the buffers of that request together with progress
\* 0; one rendered right after a ticker update sees the target of the latest
\* request together with the value of that request's tween.
C17_FrameSnapshotConsistent ==
  [][lastEvent'.kind = "render" =>
       /\ UNCHANGED <<index, attrPosition, attrTarget, uProgress, tweens>>
       /\ (loaded /\ lastEvent.kind \in {"manual", "timer"}) =>
             /\ attrTarget' = PositionsAt(lastEvent.arg)
             /\ uProgress' = 0 /\ tweens'[Len(tweens')] = 0
       /\ (lastEvent.kind = "tick" /\ Transitioning) =>
             /\ attrTarget' = PositionsAt(index')
             /\ uProgress' = TweenValue(tweens'[Len(tweens')])]_vars

\* C17 witness: a frame is rendered right after a request preempted a
\* transition that had made progress.
C17_Witness ==
  /\ lastEvent.kind = "render" /\ loaded
  /\ Len(tweens) = 2 /\ tweens[1] > 0 /\ tweens[2] = 0
  /\ uProgress = 0 /\ attrTarget = index /\ attrPosition # attrTarget

\* C18: every update of the ticker moves the latest transition one tick on
\* and writes its value; it reaches 1 exactly DurationTicks after its start
\* unless a morph request comes first, and no other handler ends, pauses or
\* moves a tween.
C18_TransitionCompletesOnTime ==
  [][/\ (lastEvent'.kind = "tick" /\ Transitioning) =>
          LET e == tweens[Len(tweens)] + 1
          IN IF e = DurationTicks
             THEN tweens' = <<>> /\ uProgress' = One
             ELSE /\ tweens' # <<>> /\ tweens'[Len(tweens')] = e
                  /\ e < DurationTicks /\ uProgress' = TweenValue(e)
     /\ lastEvent'.kind \in {"render", "load"} => UNCHANGED <<tweens, uProgress>>
     /\ lastEvent'.kind = "slider" => UNCHANGED tweens]_vars

\* C18 witness: a transition started by the timer has completed exactly one
\* tween duration after the firing.
C18_Witness ==
  /\ lastEvent.kind = "tick" /\ ~manualUsed /\ autoTargets # <<>>
  /\ timerElapsed = DurationTicks /\ ~Transitioning /\ uProgress = One

\* C19: while no button is used, the timer never fires on a running
\* transition: no tween is alive, the previous one having ended at 1 (and
\* progress still is 1 when there is no debug panel to move it).
C19_TimerAloneNeverPreempts ==
  [][(~manualUsed /\ loaded /\ lastEvent'.kind = "timer") =>
        /\ ~Transitioning /\ tweens' = <<0>>
        /\ (~gui /\ autoTargets # <<>>) => uProgress = One]_vars

\* C19 witness: the timer has fired for the second time, no button used.
C19_Witness ==
  /\ ~manualUsed /\ loaded /\ lastEvent.kind = "timer"
  /\ Len(autoTargets) >= 2 /\ tweens = <<0>>

\* C20 (as claimed): a timer firing before the Particle Set exists raises no
\* error and changes no morph state.
C20_EarlyFiringHarmless ==
  (lastEvent.kind = "timer" /\ ~loaded) =>
     /\ lastError = "none"
     /\ index = 0 /\ tweens = <<>> /\ uProgress = 0
     /\ attrPosition = Undefined /\ attrTarget = Undefined

====
